---- MODULE Spec2Model ----
(***************************************************************************)
(* Model of the staged workflow runner (WorkflowEngine) and of the         *)
(* multi-pass enhancement loop (QualityEnhancementEngine.enhance_story)    *)
(* of ai_story_writer.                                                     *)
(*                                                                         *)
(* A workflow run is one asyncio task: its position is pc[r].  The await   *)
(* points of the code (handler in flight, backoff sleep) are separate      *)
(* positions; the handler's outcome (return, raise, timeout) and the       *)
(* passing of wall-clock time are choices of the environment.              *)
(* Step names are the identity of a step: the engine is registered with    *)
(* pairwise distinct names, as V13StoryAgent._register_workflow_steps does.*)
(***************************************************************************)
EXTENDS Integers, Sequences, FiniteSets, TLC

\* ---------------------------------------------------------------- bounds
MaxSteps == 2
MaxRetry == 2
MaxPasses == 3
MaxNumbers == 3
MaxRecords == 2

\* ------------------------------------------------------------- constants
BackoffCap == 10
NoneArg == -1
\* scores are counted in twentieths of a point: 20 units = 1.0
\* QualityConfig: target_quality_score = 8.0, quality_convergence_threshold = 0.1
CfgTargetQuality == 160
ConvergenceThreshold == 2

Runs == {1, 2}
MainRun == 1

StepNames == << "requirements_analysis", "strategy_selection", "outline_generation",
                "content_generation", "quality_assessment", "enhancement" >>
StepStages == << "analysis", "strategy_selection", "outline_generation",
                 "content_generation", "quality_assessment", "enhancement" >>

AllNames == { StepNames[k] : k \in 1..MaxSteps }

\* retry_count is any int: a negative one leaves range(retry_count + 1) empty
RetryCounts == -1 .. MaxRetry

Min(a, b) == IF a <= b THEN a ELSE b
Max(a, b) == IF a >= b THEN a ELSE b

RECURSIVE Pow2(_)
Pow2(n) == IF n <= 0 THEN 1 ELSE 2 * Pow2(n - 1)

\* min(2 ** attempt, 10): the delay slept after a failed attempt
Backoff(attempt) == Min(Pow2(attempt), BackoffCap)

\* WorkflowStep(name, stage, handler, timeout, retry_count, required)
WorkflowStep(k, rc, req) ==
    [name |-> StepNames[k], stage |-> StepStages[k], retry_count |-> rc, required |-> req]

\* every list of steps register_step can build, up to MaxSteps steps
StepLists ==
    UNION { { [k \in 1..n |-> WorkflowStep(k, rcs[k], reqs[k])] :
                rcs \in [1..n -> RetryCounts], reqs \in [1..n -> BOOLEAN] } :
            n \in 0..MaxSteps }

NameSeq(ss) == [k \in 1..Len(ss) |-> ss[k].name]

Range(s) == { s[k] : k \in 1..Len(s) }

\* list.remove(x): drops the first occurrence of x
RECURSIVE Remove(_, _)
Remove(s, x) ==
    IF s = << >> THEN << >>
    ELSE IF Head(s) = x THEN Tail(s)
    ELSE << Head(s) >> \o Remove(Tail(s), x)

VARIABLES
    steps,        \* WorkflowEngine.steps
    workflows,    \* WorkflowEngine.workflows (ids of the runs in the table)
    pc,           \* position of each run
    idx,          \* loop variable i of execute_workflow (0-based)
    attempt,      \* loop variable attempt of _execute_step_with_retry
    wstate,       \* the run's WorkflowState
    results,      \* context['results'] of the run
    totalSteps,   \* local total_steps of each run
    contentSet,   \* context['story_content'] is a string (a handler stored it)
    titleSet,     \* context['story_title'] is a string (a handler stored it)
    qualityMetrics, \* context['quality_metrics']: the module of the QualityMetrics a handler stored
    raisedErr,    \* the error execute_workflow raised
    overBudget,   \* time.time() - start_time > max_workflow_time
    calls,        \* per step: number of handler invocations so far
    inflight,     \* handler invocations of the run not yet finished
    waited,       \* time slept since the last failed attempt
    seen,         \* per step: the keys of results the handler found at its first invocation
    \* ---- enhance_story
    epc,          \* position of the enhance_story call
    targetArg,    \* argument target_quality (NoneArg when omitted)
    maxPassesArg, \* argument max_passes (NoneArg when omitted)
    cfgMaxPasses, \* config.max_enhancement_passes
    target,       \* local target_quality after line 71
    maxPasses,    \* local max_passes after line 72
    passNum,      \* loop variable pass_num
    current,      \* current_content / current_title (0: initial, n: output of pass n)
    enhanced,     \* enhanced_content / enhanced_title of the pass under way
    currentQ,     \* overall score of current_quality
    finalQ,       \* overall score of final_quality
    passes,       \* enhancement_passes
    conv,         \* convergence_metrics
    genCalls,     \* calls of the Generation Service
    scoreCalls,   \* per content: calls of the Quality Scoring Service
    eErr,         \* the error enhance_story raised
    quality,      \* the Scoring Service's overall score of each content, when it
                  \* scores by content alone (empty otherwise)
    metricsModule, \* the module of the AdvancedQualityMetrics class of the
                  \* objects quality_assessor returns
    \* ---- _select_enhancement_strategy
    selMetrics,   \* argument quality_metrics: score of each dimension
    strategy,     \* the EnhancementStrategy returned ("none" before the call)
    \* ---- assess_comprehensive
    apc,          \* position of the assess_comprehensive call
    parallel,     \* config.enable_parallel_assessment
    enabled,      \* the dimensions whose config.enable_*_assessment is set
    basicMetrics, \* basic_metrics returned by QualityAssessor.assess_quality
    gathered,     \* results of asyncio.gather(..., return_exceptions=True)
    enhancedScores, \* the dict enhanced_scores / enhanced_assessments
    advanced,     \* the AdvancedQualityMetrics returned
    failed,       \* the dimensions whose assessment raised
    \* ---- _assess_dialogue_quality
    answer,       \* the numerals of the agent's answer, in order, with their sign
    assessed,     \* what the assessment returned (Failure when it raised)
    \* ---- StrategySelector.select_strategy
    requirements, \* argument requirements
    performance,  \* StrategySelector.strategy_performance
    strategyScores, \* strategy_scores of the last select_strategy call
    recommendation, \* the StrategyRecommendation the last call returned
    compensatedSum \* the interpreter's sum() adds floats with compensated
                  \* summation (CPython 3.12 and later) or from left to right

wvars == << steps, workflows, pc, idx, attempt, wstate, results, totalSteps, contentSet,
            titleSet, qualityMetrics,
            raisedErr, overBudget, calls, inflight, waited, seen >>
evars == << epc, targetArg, maxPassesArg, cfgMaxPasses, target, maxPasses, passNum,
            current, enhanced, currentQ, finalQ, passes, conv, genCalls, scoreCalls,
            eErr, quality, metricsModule >>
qvars == << selMetrics, strategy, apc, parallel, enabled, basicMetrics, gathered,
            enhancedScores, advanced, failed >>
xvars == << answer, assessed, requirements, performance, strategyScores,
            recommendation, compensatedSum >>
vars == << wvars, evars, qvars, xvars >>

\* an error: its class, the step and the underlying error its message names,
\* the exception it is chained to by __context__ (set by a raise inside an
\* except block), and the class of the error line 226 wrapped
NoError == [type |-> "none", step |-> "none", cause |-> "none", context |-> "none",
            wrapped |-> "none"]
Absent == -2      \* key not in context['results']
NoneResult == -1  \* the value None

NoState == [stage |-> "none", progress |-> << 0, 1 >>, current_step |-> "none",
            steps_completed |-> << >>, steps_remaining |-> << >>,
            error_count |-> 0, last_error |-> "none"]

N == Len(steps)
Step(r) == steps[idx[r] + 1]

WInitIdle ==
    /\ workflows = {}
    /\ pc = [r \in Runs |-> "idle"]
    /\ idx = [r \in Runs |-> 0]
    /\ attempt = [r \in Runs |-> 0]
    /\ wstate = [r \in Runs |-> NoState]
    /\ results = [r \in Runs |-> [n \in AllNames |-> Absent]]
    /\ totalSteps = [r \in Runs |-> 0]
    /\ contentSet = [r \in Runs |-> FALSE]
    /\ titleSet = [r \in Runs |-> FALSE]
    /\ qualityMetrics = [r \in Runs |-> "none"]
    /\ raisedErr = [r \in Runs |-> NoError]
    /\ overBudget = [r \in Runs |-> FALSE]
    /\ calls = [r \in Runs |-> [k \in 1..MaxSteps |-> 0]]
    /\ inflight = [r \in Runs |-> 0]
    /\ waited = [r \in Runs |-> 0]
    /\ seen = [r \in Runs |-> [k \in 1..MaxSteps |-> {}]]

\* ConvergenceMetrics()
NewConvergence ==
    [improvement_velocity |-> << >>, diminishing_returns_detected |-> FALSE,
     convergence_detected |-> FALSE, convergence_pass |-> NoneArg]

EInitLocals ==
    /\ epc = "idle"
    /\ target = 0
    /\ maxPasses = 0
    /\ passNum = 0
    /\ current = 0
    /\ enhanced = 0
    /\ currentQ = 0
    /\ finalQ = NoneArg
    /\ passes = << >>
    /\ conv = NewConvergence
    /\ genCalls = 0
    /\ scoreCalls = [c \in 0..MaxPasses + 1 |-> 0]
    /\ eErr = "none"

EInitIdle ==
    /\ targetArg = NoneArg
    /\ maxPassesArg = NoneArg
    /\ cfgMaxPasses = 1
    /\ EInitLocals
    /\ quality = << >>
    /\ metricsModule = "v14_models"

\* ---- quality vectors. A dimension is named by its QualityDimension value;
\* the scores of a vector are counted in hundredths of a point (1000 = 10.0)
BasicDims == << "structure", "coherence", "character_development", "genre_compliance",
               "pacing_quality", "theme_integration" >>
EnhancedDims == << "dialogue_quality", "setting_immersion", "emotional_impact",
                  "originality_score", "technical_quality" >>
\* the order of dimension_scores in get_weakest_dimensions
Dimensions == << "structure", "coherence", "character_development", "genre_compliance",
                "pacing_quality", "theme_integration", "dialogue_quality",
                "setting_immersion", "emotional_impact", "originality_score",
                "technical_quality" >>
BasicSet == Range(BasicDims)
EnhancedSet == Range(EnhancedDims)
DimSet == Range(Dimensions)
MinScore == 0
MaxScore == 1000

Failure == -1     \* the call raised
NoMetrics == [d \in {} |-> 0]

QInitIdle ==
    /\ selMetrics = [d \in DimSet |-> MinScore]
    /\ strategy = "none"
    /\ apc = "idle"
    /\ parallel = TRUE
    /\ enabled = EnhancedSet
    /\ basicMetrics = NoMetrics
    /\ gathered = NoMetrics
    /\ enhancedScores = NoMetrics
    /\ advanced = NoMetrics
    /\ failed = {}

NotCalled == -3   \* the function has not been called yet

NoRequirements ==
    [genre |-> "literary", target_word_count |-> 100, theme |-> 0, setting |-> 0]

GenerationStrategy == << "direct", "outline", "iterative", "adaptive" >>

\* strategy_performance after __init__ (lines 30-32)
NoPerformance == [s \in Range(GenerationStrategy) |-> << >>]

\* no StrategyRecommendation has been returned yet
NoRecommendation ==
    [recommended_strategy |-> "none", confidence |-> 0, alternatives |-> << >>]

\* strategy_scores before the first call
NoScores == [s \in Range(GenerationStrategy) |-> [score |-> 0, confidence |-> 0]]

SInitIdle ==
    /\ requirements = NoRequirements
    /\ performance = NoPerformance
    /\ strategyScores = NoScores
    /\ recommendation = NoRecommendation
    /\ compensatedSum = FALSE

XInitIdle ==
    /\ answer = << >>
    /\ assessed = NotCalled
    /\ SInitIdle

\* the states in which a run of execute_workflow is in progress
Active(r) == pc[r] \in {"loop", "retry", "inflight", "sleeping", "finalize", "build"}

\* ------------------------------------------------ execute_workflow
\* lines 94-125: create the WorkflowState, enter it in the table, build the context
StartWorkflow(r) ==
    /\ pc[r] = "idle"
    /\ wstate' = [wstate EXCEPT ![r] =
                    [stage |-> "analysis", progress |-> << 0, 1 >>,
                     current_step |-> "initialization",
                     steps_completed |-> << >>,
                     steps_remaining |-> NameSeq(steps),
                     error_count |-> 0, last_error |-> "none"]]
    /\ workflows' = workflows \cup {r}
    /\ results' = [results EXCEPT ![r] = [n \in AllNames |-> Absent]]
    /\ idx' = [idx EXCEPT ![r] = 0]
    /\ totalSteps' = [totalSteps EXCEPT ![r] = N]
    /\ pc' = [pc EXCEPT ![r] = IF N = 0 THEN "finalize" ELSE "loop"]
    /\ UNCHANGED << steps, attempt, contentSet, titleSet, qualityMetrics, raisedErr, overBudget, calls,
                    inflight, waited, seen >>
    /\ UNCHANGED << evars, qvars, xvars >>

\* variant: progress counts the step about to run as done
StepProgressAhead(i, total) == << i + 1, total >>
\* workflow_state.progress = i / total_steps
StepProgress(i, total) == << i, total >>

\* lines 129-140: state update before a step, then enter _execute_step_with_retry
BeginStep(r) ==
    /\ pc[r] = "loop"
    /\ wstate' = [wstate EXCEPT ![r].stage = Step(r).stage,
                                ![r].current_step = Step(r).name,
                                ![r].progress = StepProgress(idx[r], totalSteps[r])]
    /\ attempt' = [attempt EXCEPT ![r] = 0]
    /\ waited' = [waited EXCEPT ![r] = 0]
    /\ pc' = [pc EXCEPT ![r] = "retry"]
    /\ UNCHANGED << steps, totalSteps, workflows, idx, results, contentSet, titleSet, qualityMetrics, raisedErr,
                    overBudget, calls, inflight, seen >>
    /\ UNCHANGED << evars, qvars, xvars >>

\* variant: the error does not name the step
StepErrorAnonymous(step, e) ==
    [type |-> IF step.required THEN "WorkflowError" ELSE "StoryGenerationError",
     step |-> "none", cause |-> e, context |-> e, wrapped |-> "none"]

\* variant: the error of a step registered with required = false is raised
\* without its chain (raise ... from None)
StepErrorUnchained(step, e) ==
    IF step.required
    THEN [type |-> "WorkflowError", step |-> step.name, cause |-> e, context |-> e,
          wrapped |-> "none"]
    ELSE [type |-> "StoryGenerationError", step |-> step.name, cause |-> "none",
          context |-> "none", wrapped |-> "none"]

\* the error built at lines 157-162 from the exception e of the step: the
\* message of line 159 holds the text of e, the one of line 162 does not;
\* both are raised inside 'except Exception as e', so that e is their
\* __context__
StepError(step, e) ==
    IF step.required
    THEN [type |-> "WorkflowError", step |-> step.name, cause |-> e, context |-> e,
          wrapped |-> "none"]
    ELSE [type |-> "StoryGenerationError", step |-> step.name, cause |-> "none",
          context |-> e, wrapped |-> "none"]

\* line 226: raise WorkflowError(f"Workflow execution failed: {e}") from e.
\* The message holds the text of e, and e, with its own chain, is the
\* __cause__ of the error the caller receives
Wrap(err) ==
    [type |-> "WorkflowError", step |-> err.step, cause |-> err.cause,
     context |-> err.context, wrapped |-> err.type]

\* lines 142-147 when steps_remaining.remove finds the name: the name moves
\* from steps_remaining to steps_completed and the loop goes on
MoveToCompleted(r) ==
    /\ wstate' = [wstate EXCEPT
                    ![r].steps_completed = Append(@, Step(r).name),
                    ![r].steps_remaining = Remove(@, Step(r).name)]
    /\ idx' = [idx EXCEPT ![r] = @ + 1]
    /\ pc' = [pc EXCEPT ![r] = IF idx[r] + 1 = N THEN "finalize" ELSE "loop"]
    /\ UNCHANGED << raisedErr, workflows >>

\* lines 146-162 when the name is not in steps_remaining (the step was
\* registered after the run started): the name is appended to
\* steps_completed, list.remove raises ValueError and the run aborts
RemoveRaises(r) ==
    /\ wstate' = [wstate EXCEPT
                    ![r].steps_completed = Append(@, Step(r).name),
                    ![r].error_count = @ + 1,
                    ![r].last_error = "ValueError"]
    /\ raisedErr' = [raisedErr EXCEPT ![r] = Wrap(StepError(Step(r), "ValueError"))]
    /\ workflows' = workflows \ {r}
    /\ pc' = [pc EXCEPT ![r] = "raised"]
    /\ idx' = idx

\* variant: the result is not stored in the context
CompleteStepNoResult(r, value) ==
    /\ results' = results
    /\ IF Step(r).name \in Range(wstate[r].steps_remaining)
       THEN MoveToCompleted(r)
       ELSE RemoveRaises(r)

\* variant: the name is not removed from steps_remaining
CompleteStepNoRemove(r, value) ==
    /\ results' = [results EXCEPT ![r][Step(r).name] = value]
    /\ wstate' = [wstate EXCEPT
                    ![r].steps_completed = Append(@, Step(r).name)]
    /\ idx' = [idx EXCEPT ![r] = @ + 1]
    /\ pc' = [pc EXCEPT ![r] = IF idx[r] + 1 = N THEN "finalize" ELSE "loop"]
    /\ UNCHANGED << raisedErr, workflows >>

\* lines 142-147 and the loop increment: the step's result is stored, then
\* the name is moved from steps_remaining to steps_completed
CompleteStep(r, value) ==
    /\ results' = [results EXCEPT ![r][Step(r).name] = value]
    /\ IF Step(r).name \in Range(wstate[r].steps_remaining)
       THEN MoveToCompleted(r)
       ELSE RemoveRaises(r)

\* variant: the failure of a step registered with required = false is logged
\* and the run continues with the next step
FailStepOptional(r, e) ==
    /\ wstate' = [wstate EXCEPT ![r].error_count = @ + 1,
                                ![r].last_error = e]
    /\ IF Step(r).required
       THEN /\ raisedErr' = [raisedErr EXCEPT ![r] = Wrap(StepError(Step(r), e))]
            /\ workflows' = workflows \ {r}
            /\ pc' = [pc EXCEPT ![r] = "raised"]
            /\ idx' = idx
       ELSE /\ pc' = [pc EXCEPT ![r] = IF idx[r] + 1 = N THEN "finalize" ELSE "loop"]
            /\ idx' = [idx EXCEPT ![r] = @ + 1]
            /\ UNCHANGED << raisedErr, workflows >>

\* variant: an aborting run empties the engine's table of running workflows
FailStepClearsTable(r, e) ==
    /\ wstate' = [wstate EXCEPT ![r].error_count = @ + 1,
                                ![r].last_error = e]
    /\ raisedErr' = [raisedErr EXCEPT ![r] = Wrap(StepError(Step(r), e))]
    /\ workflows' = {}
    /\ pc' = [pc EXCEPT ![r] = "raised"]
    /\ idx' = idx

\* lines 151-162, 224-231: a step failed for good; the run aborts whatever
\* the step's required flag is, and leaves the engine's table
FailStep(r, e) ==
    /\ wstate' = [wstate EXCEPT ![r].error_count = @ + 1,
                                ![r].last_error = e]
    /\ raisedErr' = [raisedErr EXCEPT ![r] = Wrap(StepError(Step(r), e))]
    /\ workflows' = workflows \ {r}
    /\ pc' = [pc EXCEPT ![r] = "raised"]
    /\ idx' = idx

\* ------------------------------------------ _execute_step_with_retry
\* for attempt in range(step.retry_count + 1)
AttemptInRange(a, step) == a < step.retry_count + 1
\* variant: the last attempt is taken to be one later
LastAttemptLate(a, step) == a = step.retry_count + 1
LastAttempt(a, step) == a = step.retry_count

\* line 243: the handler is called with the run's context
InvokeHandler(r) ==
    /\ pc[r] = "retry"
    /\ AttemptInRange(attempt[r], Step(r))
    /\ pc' = [pc EXCEPT ![r] = "inflight"]
    /\ calls' = [calls EXCEPT ![r][idx[r] + 1] = @ + 1]
    /\ inflight' = [inflight EXCEPT ![r] = @ + 1]
    /\ seen' = [seen EXCEPT ![r][idx[r] + 1] =
                  IF calls[r][idx[r] + 1] = 0
                  THEN { n \in AllNames : results[r][n] # Absent }
                  ELSE @]
    /\ UNCHANGED << steps, totalSteps, workflows, idx, attempt, wstate, results, contentSet, titleSet, qualityMetrics,
                    raisedErr, overBudget, waited >>
    /\ UNCHANGED << evars, qvars, xvars >>

\* the range is empty (retry_count < 0): the function falls off its end and
\* returns None without having called the handler
FallThrough(r) ==
    /\ pc[r] = "retry"
    /\ ~AttemptInRange(attempt[r], Step(r))
    /\ CompleteStep(r, NoneResult)
    /\ UNCHANGED << steps, totalSteps, attempt, contentSet, titleSet, qualityMetrics, overBudget,
                    calls, inflight, waited, seen >>
    /\ UNCHANGED << evars, qvars, xvars >>

\* what a handler leaves in the context: story_content and story_title as
\* strings or not, and in quality_metrics nothing or the QualityMetrics of
\* story_models (the one of v13_models is built by line 200 only)
Stores(c, t, m) == [content |-> c, title |-> t, quality_metrics |-> m]
HandlerStores ==
    { Stores(c, t, m) : c \in BOOLEAN, t \in BOOLEAN, m \in {"none", "story_models"} }

\* what the handlers of v13_story_agent.py leave: nothing, the story with its
\* title (lines 467-468, 570-571), the result of
\* QualityAssessor.assess_quality (line 487), a QualityMetrics of story_models
RepositoryStores ==
    { Stores(FALSE, FALSE, "none"), Stores(TRUE, TRUE, "none"),
      Stores(FALSE, FALSE, "story_models") }

\* lines 248-251: the handler returned within the timeout; its value is the
\* step's result (modelled as the number of the attempt that produced it).
\* The handler may have stored the story and its metrics in the context.
HandlerReturns(r, stores) ==
    /\ pc[r] = "inflight"
    /\ inflight' = [inflight EXCEPT ![r] = @ - 1]
    /\ \E stored \in stores :
         /\ contentSet' = [contentSet EXCEPT ![r] = @ \/ stored.content]
         /\ titleSet' = [titleSet EXCEPT ![r] = @ \/ stored.title]
         /\ qualityMetrics' = [qualityMetrics EXCEPT ![r] =
                                 IF stored.quality_metrics = "none" THEN @
                                 ELSE stored.quality_metrics]
    /\ CompleteStep(r, attempt[r])
    /\ UNCHANGED << steps, totalSteps, attempt, overBudget, calls, waited, seen >>
    /\ UNCHANGED << evars, qvars, xvars >>

\* lines 258-264: the handler raised
HandlerRaises(r) ==
    /\ pc[r] = "inflight"
    /\ inflight' = [inflight EXCEPT ![r] = @ - 1]
    /\ IF LastAttempt(attempt[r], Step(r))
       THEN /\ FailStep(r, "HandlerError")
            /\ UNCHANGED << waited >>
       ELSE /\ pc' = [pc EXCEPT ![r] = "sleeping"]
            /\ waited' = [waited EXCEPT ![r] = Backoff(attempt[r])]
            /\ UNCHANGED << wstate, raisedErr, workflows, idx >>
    /\ UNCHANGED << steps, totalSteps, attempt, results, contentSet, titleSet, qualityMetrics, overBudget, calls, seen >>
    /\ UNCHANGED << evars, qvars, xvars >>

\* asyncio.sleep(...) is over: next iteration of the retry loop
WakeUp(r) ==
    /\ pc[r] = "sleeping"
    /\ attempt' = [attempt EXCEPT ![r] = @ + 1]
    /\ pc' = [pc EXCEPT ![r] = "retry"]
    /\ UNCHANGED << steps, totalSteps, workflows, idx, wstate, results, contentSet, titleSet, qualityMetrics, raisedErr,
                    overBudget, calls, inflight, waited, seen >>
    /\ UNCHANGED << evars, qvars, xvars >>

\* lines 253-256: wait_for cancelled the handler at the timeout.  On the last
\* attempt a WorkflowError is raised; otherwise the loop goes straight to the
\* next attempt (the sleep of line 264 belongs to the other except clause)
HandlerTimesOut(r) ==
    /\ pc[r] = "inflight"
    /\ inflight' = [inflight EXCEPT ![r] = @ - 1]
    /\ IF LastAttempt(attempt[r], Step(r))
       THEN /\ FailStep(r, "Timeout")
            /\ UNCHANGED << attempt, waited >>
       ELSE /\ pc' = [pc EXCEPT ![r] = "retry"]
            /\ attempt' = [attempt EXCEPT ![r] = @ + 1]
            /\ waited' = [waited EXCEPT ![r] = 0]
            /\ UNCHANGED << wstate, raisedErr, workflows, idx >>
    /\ UNCHANGED << steps, totalSteps, results, contentSet, titleSet, qualityMetrics, overBudget, calls, seen >>
    /\ UNCHANGED << evars, qvars, xvars >>

\* lines 164-170: the loop is over; the state is set to finalization and
\* the progress callback is called
Finalize(r) ==
    /\ pc[r] = "finalize"
    /\ wstate' = [wstate EXCEPT ![r].stage = "finalization",
                                ![r].progress = << 1, 1 >>,
                                ![r].current_step = "finalization"]
    /\ pc' = [pc EXCEPT ![r] = "build"]
    /\ UNCHANGED << steps, totalSteps, workflows, idx, attempt, results, contentSet,
                    titleSet, qualityMetrics, raisedErr, overBudget, calls, inflight, waited, seen >>
    /\ UNCHANGED << evars, qvars, xvars >>

\* lines 172-231: the result is built from the context.  story_content is
\* None unless a handler stored a string, and None has no split();
\* story_title is None unless a handler stored a string, and the result's
\* title must be a string; quality_metrics must be a QualityMetrics of
\* v13_models (the default when none is stored), and the one
\* QualityAssessor.assess_quality returns is of story_models.
BuildResult(r) ==
    /\ pc[r] = "build"
    /\ IF contentSet[r] /\ titleSet[r] /\ qualityMetrics[r] # "story_models"
       THEN /\ pc' = [pc EXCEPT ![r] = "returned"]
            /\ UNCHANGED raisedErr
       ELSE /\ pc' = [pc EXCEPT ![r] = "raised"]
            /\ raisedErr' = [raisedErr EXCEPT ![r] =
                 Wrap([type |-> IF contentSet[r] THEN "ValidationError"
                                ELSE "AttributeError",
                       step |-> "none", cause |-> "none", context |-> "none",
                       wrapped |-> "none"])]
    /\ workflows' = workflows \ {r}
    /\ UNCHANGED << steps, totalSteps, idx, attempt, wstate, results, contentSet,
                    titleSet, qualityMetrics, overBudget, calls, inflight, waited, seen >>
    /\ UNCHANGED << evars, qvars, xvars >>

\* register_step (lines 65-75), called while runs are under way or between
\* them: the step is appended to the list the loops of the runs iterate over
RegisterStepWith(limit, retryCounts, requireds) ==
    /\ Len(steps) < limit
    /\ \E rc \in retryCounts, req \in requireds :
         steps' = Append(steps, WorkflowStep(Len(steps) + 1, rc, req))
    /\ UNCHANGED << workflows, pc, idx, attempt, wstate, results, totalSteps,
                    contentSet, titleSet, qualityMetrics, raisedErr, overBudget, calls, inflight,
                    waited, seen >>
    /\ UNCHANGED << evars, qvars, xvars >>

RegisterStep == RegisterStepWith(MaxSteps, RetryCounts, BOOLEAN)

\* cleanup_completed_workflows(max_age_seconds) with a cutoff later than
\* every estimated completion time (lines 296-312): the entries whose stage
\* is finalization leave the table
CleanupCompletedWorkflows ==
    /\ \E r \in workflows : wstate[r].stage = "finalization"
    /\ workflows' = { r \in workflows : wstate[r].stage # "finalization" }
    /\ UNCHANGED << steps, pc, idx, attempt, wstate, results, totalSteps, contentSet,
                    titleSet, qualityMetrics, raisedErr, overBudget, calls, inflight, waited, seen >>
    /\ UNCHANGED << evars, qvars, xvars >>

\* wall-clock time passes the run's budget (start_time + max_workflow_time);
\* execute_workflow never reads the clock against it
BudgetElapses(r) ==
    /\ Active(r)
    /\ ~overBudget[r]
    /\ overBudget' = [overBudget EXCEPT ![r] = TRUE]
    /\ UNCHANGED << steps, totalSteps, workflows, pc, idx, attempt, wstate, results, contentSet, titleSet, qualityMetrics,
                    raisedErr, calls, inflight, waited, seen >>
    /\ UNCHANGED << evars, qvars, xvars >>

WorkflowNextWith(r, stores) ==
    \/ StartWorkflow(r)
    \/ BeginStep(r)
    \/ InvokeHandler(r)
    \/ FallThrough(r)
    \/ HandlerReturns(r, stores)
    \/ HandlerRaises(r)
    \/ WakeUp(r)
    \/ HandlerTimesOut(r)
    \/ Finalize(r)
    \/ BuildResult(r)
    \/ BudgetElapses(r)

WorkflowNext(r) == WorkflowNextWith(r, HandlerStores)

\* ------------------------------------------------------ enhance_story
\* the overall scores the Quality Scoring Service may return: 5.0, 6.0, 6.3,
\* 6.35 and 6.4
Scores == {100, 120, 126, 127, 128}
\* the target_quality values a caller passes
TargetArgs == {NoneArg, 0, 120}

\* quality_assessor returns objects of models.v14_models.AdvancedQualityMetrics
\* when it is the AdvancedQualityAssessor the engine constructs (line 43), and
\* of models.story_models.AdvancedQualityMetrics, the class the engine
\* imports, when a caller has put another assessor in its place
MetricsModules == {"story_models", "v14_models"}

\* the scores quality_assessor.assess_comprehensive may return for content c
ServiceScores(c) == IF DOMAIN quality = {} THEN Scores ELSE {quality[c]}

\* Python's "x or default": None and 0 are falsy and select the default
OrDefault(x, default) == IF x = NoneArg \/ x = 0 THEN default ELSE x

Last(s) == s[Len(s)]

\* An overall score of k twentieths, 4.0 <= k/20 < 8.0, is held as the float
\* nearest to k/20, which is k/20 + Residue(k) / (5 * 2^50).
Residue(k) ==
    CASE k % 5 = 0 -> 0
      [] k % 5 = 1 -> -1
      [] k % 5 = 2 -> -2
      [] k % 5 = 3 -> 2
      [] k % 5 = 4 -> 1

\* quality_improvement of line 161 is the float difference of the two scores,
\* which is exact: quality_improvement twentieths + FloatResidue / (5 * 2^50)
FloatResidue(pass) == Residue(pass.quality_after) - Residue(pass.quality_before)

\* latest_improvement < previous_improvement * 0.5 (line 540), on the floats
LessThanHalf(latest, previous) ==
    \/ 2 * latest.quality_improvement < previous.quality_improvement
    \/ /\ 2 * latest.quality_improvement = previous.quality_improvement
       /\ 2 * FloatResidue(latest) < FloatResidue(previous)

\* quality_improvement < quality_convergence_threshold (lines 556, 566), on
\* the floats: the float 0.1 lies 1/32 of a residue unit above 0.1
BelowThreshold(pass) ==
    \/ pass.quality_improvement < ConvergenceThreshold
    \/ /\ pass.quality_improvement = ConvergenceThreshold
       /\ FloatResidue(pass) <= 0

\* variant: diminishing returns are never flagged
UpdateConvergenceMetricsNoDiminishing(c, ps) ==
    IF Len(ps) < 2 THEN c
    ELSE LET latest == ps[Len(ps)].quality_improvement
             previous == ps[Len(ps) - 1].quality_improvement
         IN [c EXCEPT !.improvement_velocity = @ \o << previous, latest >>]

\* _update_convergence_metrics (lines 521-544)
UpdateConvergenceMetrics(c, ps) ==
    IF Len(ps) < 2 THEN c
    ELSE LET latest == ps[Len(ps)].quality_improvement
             previous == ps[Len(ps) - 1].quality_improvement
         IN [c EXCEPT
               !.improvement_velocity = @ \o << previous, latest >>,
               !.diminishing_returns_detected =
                     @ \/ LessThanHalf(ps[Len(ps)], ps[Len(ps) - 1])]

\* variant: the diminishing-returns flag does not stop the loop
DetectQualityConvergenceNoDiminishing(ps, c) ==
    IF Len(ps) < 2 THEN FALSE
    ELSE \/ BelowThreshold(Last(ps))
         \/ /\ BelowThreshold(ps[Len(ps) - 1])
            /\ BelowThreshold(ps[Len(ps)])

\* variant: a single delta below the threshold does not stop the loop
DetectQualityConvergencePlateauOnly(ps, c) ==
    IF Len(ps) < 2 THEN FALSE
    ELSE \/ c.diminishing_returns_detected
         \/ /\ BelowThreshold(ps[Len(ps) - 1])
            /\ BelowThreshold(ps[Len(ps)])

\* _detect_quality_convergence (lines 546-572)
DetectQualityConvergence(ps, c) ==
    IF Len(ps) < 2 THEN FALSE
    ELSE \/ BelowThreshold(Last(ps))
         \/ c.diminishing_returns_detected
         \/ /\ BelowThreshold(ps[Len(ps) - 1])
            /\ BelowThreshold(ps[Len(ps)])

\* for pass_num in range(1, max_passes + 1)
PassInRange(p, mp) == p < mp + 1

\* lines 70-84: defaults, then the initial assessment is awaited
EnhanceStory ==
    /\ epc = "idle"
    /\ target' = OrDefault(targetArg, CfgTargetQuality)
    /\ maxPasses' = OrDefault(maxPassesArg, cfgMaxPasses)
    /\ epc' = "assess_initial"
    /\ UNCHANGED << quality, metricsModule, targetArg, maxPassesArg, cfgMaxPasses, passNum, current, enhanced,
                    currentQ, finalQ, passes, conv, genCalls, scoreCalls, eErr >>
    /\ UNCHANGED << wvars, qvars, xvars >>

\* head of the pass loop: where the call goes for pass number p
LoopHead(p) == IF PassInRange(p, maxPasses) THEN "assess_current" ELSE "assess_final"

\* lines 82-116: the initial assessment returned q
InitialAssessed ==
    /\ epc = "assess_initial"
    /\ \E q \in ServiceScores(0) :
         /\ scoreCalls' = [scoreCalls EXCEPT ![0] = @ + 1]
         /\ IF q >= target
            THEN /\ finalQ' = q
                 /\ epc' = "build"
                 /\ UNCHANGED << passNum, currentQ >>
            ELSE /\ passNum' = 1
                 /\ epc' = LoopHead(1)
                 /\ currentQ' = q
                 /\ UNCHANGED finalQ
    /\ UNCHANGED << quality, metricsModule, targetArg, maxPassesArg, cfgMaxPasses, target, maxPasses, current,
                    enhanced, passes, conv, genCalls, eErr >>
    /\ UNCHANGED << wvars, qvars, xvars >>

\* lines 125-143: current content assessed; target check, then the
\* Generation Service is called
CurrentAssessed ==
    /\ epc = "assess_current"
    /\ \E q \in ServiceScores(current) :
         /\ scoreCalls' = [scoreCalls EXCEPT ![current] = @ + 1]
         /\ currentQ' = q
         /\ IF q >= target
            THEN /\ epc' = "assess_final"
                 /\ UNCHANGED genCalls
            ELSE /\ epc' = "generate"
                 /\ genCalls' = genCalls + 1
    /\ UNCHANGED << quality, metricsModule, targetArg, maxPassesArg, cfgMaxPasses, target, maxPasses, passNum,
                    current, enhanced, finalQ, passes, conv, eErr >>
    /\ UNCHANGED << wvars, qvars, xvars >>

\* lines 141-149: the Generation Service returned new content and title
Generated ==
    /\ epc = "generate"
    /\ enhanced' = passNum
    /\ epc' = "assess_enhanced"
    /\ UNCHANGED << quality, metricsModule, targetArg, maxPassesArg, cfgMaxPasses, target, maxPasses, passNum,
                    current, currentQ, finalQ, passes, conv, genCalls, scoreCalls, eErr >>
    /\ UNCHANGED << wvars, qvars, xvars >>

\* EnhancementPass(...) of lines 152-165
EnhancementPass(p, before, after, out) ==
    [pass_number |-> p, quality_before |-> before, quality_after |-> after,
     quality_improvement |-> after - before, output |-> out]

\* lines 147-185: the enhanced content is assessed, the pass recorded, the
\* convergence state updated and tested; the for statement of line 118 then
\* binds pass_num to the next number of the range, and leaves it as it is
\* when the range is exhausted. EnhancementPass is the class of
\* models.story_models, whose quality_before and quality_after fields take
\* that module's AdvancedQualityMetrics: given objects of another class the
\* constructor of line 152 raises a ValidationError, which nothing catches.
EnhancedAssessed ==
    /\ epc = "assess_enhanced"
    /\ \E q \in ServiceScores(enhanced) :
         LET ps == Append(passes, EnhancementPass(passNum, currentQ, q, enhanced))
             c  == UpdateConvergenceMetrics(conv, ps)
         IN /\ scoreCalls' = [scoreCalls EXCEPT ![enhanced] = @ + 1]
            /\ IF metricsModule # "story_models"
               THEN /\ eErr' = "ValidationError"
                    /\ epc' = "raised"
                    /\ UNCHANGED << passes, conv, current, passNum >>
               ELSE /\ passes' = ps
                    /\ UNCHANGED eErr
                    /\ IF DetectQualityConvergence(ps, c)
                       THEN /\ conv' = [c EXCEPT !.convergence_detected = TRUE,
                                                 !.convergence_pass = passNum]
                            /\ epc' = "assess_final"
                            /\ UNCHANGED << current, passNum >>
                       ELSE /\ conv' = c
                            /\ current' = enhanced
                            /\ passNum' = IF PassInRange(passNum + 1, maxPasses)
                                          THEN passNum + 1 ELSE passNum
                            /\ epc' = LoopHead(passNum + 1)
    /\ UNCHANGED << quality, metricsModule, targetArg, maxPassesArg, cfgMaxPasses, target,
                    maxPasses, enhanced, currentQ, finalQ, genCalls >>
    /\ UNCHANGED << wvars, qvars, xvars >>

\* lines 187-203: final assessment of current_content
FinalAssessed ==
    /\ epc = "assess_final"
    /\ \E q \in ServiceScores(current) :
         /\ scoreCalls' = [scoreCalls EXCEPT ![current] = @ + 1]
         /\ finalQ' = q
    /\ epc' = "build"
    /\ UNCHANGED << quality, metricsModule, targetArg, maxPassesArg, cfgMaxPasses, target, maxPasses, passNum,
                    current, enhanced, currentQ, passes, conv, genCalls, eErr >>
    /\ UNCHANGED << wvars, qvars, xvars >>

\* a call of the Scoring Service or of the Generation Service fails: nothing
\* in enhance_story catches the error
ServiceFails ==
    /\ epc \in {"assess_initial", "assess_current", "generate", "assess_enhanced",
                "assess_final"}
    /\ eErr' = IF epc = "generate" THEN "GenerationError" ELSE "AssessmentError"
    /\ epc' = "raised"
    /\ UNCHANGED << quality, metricsModule, targetArg, maxPassesArg, cfgMaxPasses, target, maxPasses, passNum,
                    current, enhanced, currentQ, finalQ, passes, conv, genCalls,
                    scoreCalls >>
    /\ UNCHANGED << wvars, qvars, xvars >>

\* _build_final_result (lines 574-655): line 652 reads target_quality, which
\* is neither a parameter nor a local of this method
BuildFinalResult ==
    /\ epc = "build"
    /\ eErr' = "NameError"
    /\ epc' = "raised"
    /\ UNCHANGED << quality, metricsModule, targetArg, maxPassesArg, cfgMaxPasses, target, maxPasses, passNum,
                    current, enhanced, currentQ, finalQ, passes, conv, genCalls,
                    scoreCalls >>
    /\ UNCHANGED << wvars, qvars, xvars >>

EnhanceNext ==
    \/ EnhanceStory
    \/ InitialAssessed
    \/ CurrentAssessed
    \/ Generated
    \/ EnhancedAssessed
    \/ FinalAssessed
    \/ ServiceFails
    \/ BuildFinalResult

\* the calls of enhance_story: any target, max_passes omitted or >= 0
EnhInit ==
    /\ steps = << >>
    /\ WInitIdle
    /\ targetArg \in TargetArgs
    /\ maxPassesArg \in {NoneArg} \cup 0..MaxPasses
    /\ cfgMaxPasses \in 1..MaxPasses
    /\ EInitLocals
    /\ quality = << >>
    /\ metricsModule \in MetricsModules
    /\ QInitIdle
    /\ XInitIdle

EnhSpec == EnhInit /\ [][EnhanceNext]_vars

\* ---- enhance_story with a Scoring Service that scores by content alone:
\* the same content always gets the same overall score (5.0, 6.3 or 6.35)
ContentScores == {100, 126, 127}
\* the caller omits target_quality or asks for 6.35
ContentTargets == {NoneArg, 127}

ContentInit ==
    /\ steps = << >>
    /\ WInitIdle
    /\ targetArg \in ContentTargets
    /\ maxPassesArg \in {NoneArg} \cup 0..MaxPasses
    /\ cfgMaxPasses \in 1..MaxPasses
    /\ EInitLocals
    /\ quality \in [0..MaxPasses -> ContentScores]
    /\ metricsModule \in MetricsModules
    /\ QInitIdle
    /\ XInitIdle

ContentSpec == ContentInit /\ [][EnhanceNext]_vars

\* ----------------------------------- _select_enhancement_strategy
\* the dimension scores a caller passes: 5.0, 6.0 and 7.0
SelLevels == {500, 600, 700}
\* get_weakest_dimensions(threshold=7.0)
WeakThreshold == 700

\* QualityConfig.enhancement_strategy_weights, in tenths
StrategyWeights ==
    [structure_weight |-> 10, character_weight |-> 12, pacing_weight |-> 11,
     dialogue_weight |-> 9, setting_weight |-> 8, emotional_impact_weight |-> 13,
     originality_weight |-> 7, technical_weight |-> 10]
\* the default of weights.get(weight_key, 1.0)
DefaultWeight == 10

\* strategy_priorities (lines 227-237): theme_integration and
\* originality_score have no entry
StrategyPriorities ==
    [structure |-> "structure_focus", character_development |-> "character_focus",
     pacing_quality |-> "pacing_focus", coherence |-> "coherence_focus",
     genre_compliance |-> "genre_focus", dialogue_quality |-> "dialogue_focus",
     setting_immersion |-> "setting_focus", emotional_impact |-> "emotional_focus",
     technical_quality |-> "technical_focus"]

\* strategy.replace('_focus', '_weight') on each focus strategy
WeightKey ==
    [structure_focus |-> "structure_weight", character_focus |-> "character_weight",
     pacing_focus |-> "pacing_weight", coherence_focus |-> "coherence_weight",
     genre_focus |-> "genre_weight", dialogue_focus |-> "dialogue_weight",
     setting_focus |-> "setting_weight", emotional_focus |-> "emotional_weight",
     technical_focus |-> "technical_weight"]

\* weights.get(key, 1.0)
WeightsGet(key) ==
    IF key \in DOMAIN StrategyWeights THEN StrategyWeights[key] ELSE DefaultWeight

RECURSIVE Filter(_, _)
\* the elements of sequence s that are in set S, in the order of s
Filter(s, S) ==
    IF s = << >> THEN << >>
    ELSE (IF Head(s) \in S THEN << Head(s) >> ELSE << >>) \o Filter(Tail(s), S)

\* variant: a score equal to the threshold counts as weak
GetWeakestDimensionsInclusive(m, threshold) ==
    Filter(Dimensions, { d \in DimSet : m[d] <= threshold })

\* AdvancedQualityMetrics.get_weakest_dimensions (story_models.py 148-169)
GetWeakestDimensions(m, threshold) ==
    Filter(Dimensions, { d \in DimSet : m[d] < threshold })

\* weighted_priorities[dimension] = (10.0 - score) * weight (lines 259-264)
WeightedPriority(m, d) ==
    (MaxScore - m[d]) * WeightsGet(WeightKey[StrategyPriorities[d]])

\* max(weighted_priorities.items(), key=...)[0]: the first key, in insertion
\* order, whose priority no other key exceeds
FirstMax(m, ds) ==
    ds[CHOOSE i \in 1..Len(ds) :
          /\ \A j \in 1..Len(ds) : WeightedPriority(m, ds[j]) <= WeightedPriority(m, ds[i])
          /\ \A j \in 1..(i - 1) : WeightedPriority(m, ds[j]) < WeightedPriority(m, ds[i])]

\* _select_enhancement_strategy (lines 205-271)
SelectEnhancementStrategy(m) ==
    LET weak == GetWeakestDimensions(m, WeakThreshold)
        keys == Filter(weak, DOMAIN StrategyPriorities)
    IN IF weak = << >> THEN "comprehensive"
       ELSE IF keys # << >> THEN StrategyPriorities[FirstMax(m, keys)]
       ELSE "comprehensive"

\* the call _select_enhancement_strategy(quality_metrics, requirements)
SelectStrategy ==
    /\ strategy = "none"
    /\ strategy' = SelectEnhancementStrategy(selMetrics)
    /\ UNCHANGED << selMetrics, apc, parallel, enabled, basicMetrics, gathered,
                    enhancedScores, advanced, failed >>
    /\ UNCHANGED << wvars, evars, xvars >>

SelInit ==
    /\ steps = << >>
    /\ WInitIdle
    /\ EInitIdle
    /\ selMetrics \in [DimSet -> SelLevels]
    /\ strategy = "none"
    /\ apc = "idle"
    /\ parallel = TRUE
    /\ enabled = EnhancedSet
    /\ basicMetrics = NoMetrics
    /\ gathered = NoMetrics
    /\ enhancedScores = NoMetrics
    /\ advanced = NoMetrics
    /\ failed = {}
    /\ XInitIdle

SelSpec == SelInit /\ [][SelectStrategy]_vars

\* ------------------------------------------- assess_comprehensive
\* what the heuristics of QualityAssessor read in a story: the words of each
\* paragraph (content.split('\n\n')), the sentences (re.split(r'[.!?]+')),
\* the transition words, genre keywords and character indicators present, the
\* double quotes, whether requirements.theme is given and how often the theme
\* and its words occur
Story(pl, sn, tc, kc, ic, dc, th, dm, rm) ==
    [para_lengths |-> pl, sentences |-> sn, transition_count |-> tc,
     keyword_count |-> kc, indicator_count |-> ic, dialogue_count |-> dc,
     theme |-> th, direct_mentions |-> dm, related_mentions |-> rm]

\* the stories assessed: a single line, six short sentences with one
\* character indicator, five paragraphs of 35 words, a short and a long story
\* of four paragraphs, a story that meets every heuristic. Their scores are
\* whole hundredths
Stories ==
    { Story(<< 3 >>, 1, 0, 0, 0, 0, FALSE, 0, 0),
      Story(<< 12 >>, 6, 0, 0, 1, 0, FALSE, 0, 0),
      Story(<< 35, 35, 35, 35, 35 >>, 5, 1, 0, 0, 0, FALSE, 0, 0),
      Story(<< 3, 3, 5, 5 >>, 10, 1, 4, 0, 0, TRUE, 0, 0),
      Story(<< 40, 60, 60, 40 >>, 20, 1, 0, 1, 2, TRUE, 0, 2),
      Story(<< 30, 10, 10, 10, 40 >>, 10, 2, 7, 4, 10, TRUE, 1, 2) }

RECURSIVE SumOf(_)
SumOf(s) == IF s = << >> THEN 0 ELSE Head(s) + SumOf(Tail(s))

RECURSIVE SumOfSquares(_)
SumOfSquares(s) == IF s = << >> THEN 0 ELSE Head(s) * Head(s) + SumOfSquares(Tail(s))

\* the whole part of x ** 0.5
Sqrt(x) == CHOOSE r \in 0..x : r * r <= x /\ x < (r + 1) * (r + 1)

\* len(content.split())
WordCount(s) == SumOf(s.para_lengths)

\* _assess_structure (lines 245-277)
AssessStructure(s) ==
    LET paragraphs == s.para_lengths
    IN IF Len(paragraphs) < 3 THEN 400
       ELSE LET beginning_score == IF paragraphs[1] < 30 THEN 500 ELSE 700
                middle_score == IF Len(paragraphs) < 5 THEN 600 ELSE 700
                ending_score == IF paragraphs[Len(paragraphs)] < 20 THEN 600 ELSE 700
            IN Min(Max((beginning_score * 30 + middle_score * 40 + ending_score * 30)
                           \div 100, MinScore), MaxScore)

\* _assess_coherence (lines 279-305)
AssessCoherence(s) ==
    IF s.sentences < 5 THEN 400
    ELSE Min(Max(600 + Min((2000 * s.transition_count) \div s.sentences, 300),
                 MinScore), MaxScore)

\* _assess_genre_compliance (lines 307-333): each genre has seven keywords
AssessGenreCompliance(s) ==
    Min(Max(500 + Min((1000 * s.keyword_count) \div 7, 500), MinScore), MaxScore)

\* _assess_character_development (lines 335-361)
AssessCharacterDevelopment(s) ==
    LET word_count == WordCount(s)
    IN Min(Max(500 + Min((30000 * s.indicator_count) \div Max(word_count, 100), 250)
                   + Min((10000 * s.dialogue_count) \div Max(word_count, 50), 250),
               MinScore), MaxScore)

\* _assess_pacing (lines 363-387): std_dev / avg_length is the root of
\* n * sum(l ** 2) - sum(l) ** 2 over sum(l)
AssessPacing(s) ==
    LET para_lengths == s.para_lengths
        n == Len(para_lengths)
        total == SumOf(para_lengths)
    IN IF n < 3 THEN 500
       ELSE LET variation_score ==
                    IF total > 0
                    THEN Min((1000 * Sqrt(n * SumOfSquares(para_lengths) - total * total))
                                 \div total, 500)
                    ELSE 0
            IN Min(Max(500 + variation_score, MinScore), MaxScore)

\* _assess_theme_integration (lines 389-414)
AssessThemeIntegration(s) ==
    IF ~s.theme THEN 800
    ELSE Min(Max(400 + Min((30000 * (2 * s.direct_mentions + s.related_mentions))
                               \div Max(WordCount(s), 100), 600),
                 MinScore), MaxScore)

\* QualityAssessor.assess_quality (lines 75-152): the six basic dimensions of
\* the QualityMetrics it returns
AssessQuality(s) ==
    [d \in BasicSet |->
        CASE d = "structure" -> AssessStructure(s)
          [] d = "coherence" -> AssessCoherence(s)
          [] d = "genre_compliance" -> AssessGenreCompliance(s)
          [] d = "character_development" -> AssessCharacterDevelopment(s)
          [] d = "pacing_quality" -> AssessPacing(s)
          [] d = "theme_integration" -> AssessThemeIntegration(s)]

\* what an assessment agent answers: agent.run raises, or the text holds the
\* listed numbers (those re.findall(r'\b\d+\.?\d*\b', text) finds, in order)
Reply(r, ns) == [raised |-> r, numbers |-> ns]
Replies == { Reply(TRUE, << >>), Reply(FALSE, << >>), Reply(FALSE, << 1100 >>),
             Reply(FALSE, << 1100, 660 >>), Reply(FALSE, << MinScore >>),
             Reply(FALSE, << MaxScore >>) }

\* the configurations: at most one enable_*_assessment flag is off
EnabledSets == { EnhancedSet } \cup { EnhancedSet \ {d} : d \in EnhancedSet }

InRange(score) == MinScore <= score /\ score <= MaxScore

RECURSIVE ExtractNumericalScore(_)
\* _extract_numerical_score (lines 380-395): the first number within
\* [0, 10], an error when there is none
ExtractNumericalScore(ns) ==
    IF ns = << >> THEN Failure
    ELSE IF InRange(Head(ns)) THEN Head(ns)
    ELSE ExtractNumericalScore(Tail(ns))

\* _assess_dialogue_quality and its four siblings (lines 214-343): the score,
\* or Failure when the call raises
AssessDimension(reply) ==
    IF reply.raised THEN Failure
    ELSE LET score == ExtractNumericalScore(reply.numbers)
         IN IF score = Failure THEN Failure
            ELSE IF ~InRange(score) THEN Failure
            ELSE score

\* the weights of _calculate_comprehensive_overall_score, in hundredths
OverallWeights ==
    [structure |-> 12, coherence |-> 10, character_development |-> 12,
     genre_compliance |-> 8, pacing_quality |-> 10, theme_integration |-> 8,
     dialogue_quality |-> 10, setting_immersion |-> 8, emotional_impact |-> 12,
     originality_score |-> 6, technical_quality |-> 4]

RECURSIVE WeightedSum(_, _)
\* weighted_sum (lines 364-376) over the dimensions ds, in 1/10000 of a point
WeightedSum(m, ds) ==
    IF ds = << >> THEN 0
    ELSE m[Head(ds)] * OverallWeights[Head(ds)] + WeightedSum(m, Tail(ds))

\* round(x, 2) of a value given in 1/10000 of a point: the nearest hundredth,
\* the even one when x is halfway
Round2(x) ==
    LET q == x \div 100
        r == x % 100
    IN IF r < 50 THEN q
       ELSE IF r > 50 THEN q + 1
       ELSE IF q % 2 = 0 THEN q ELSE q + 1

\* variant: every weight counted twice
CalculateComprehensiveOverallScoreDouble(m) == Round2(2 * WeightedSum(m, Dimensions))

\* _calculate_comprehensive_overall_score (lines 345-378)
CalculateComprehensiveOverallScore(m) == Round2(WeightedSum(m, Dimensions))

\* variant: a failed assessment is replaced by a default score
ProcessResultsDefaulting(g, en) ==
    IF en # EnhancedSet THEN [raised |-> TRUE, scores |-> NoMetrics]
    ELSE [raised |-> FALSE,
          scores |-> [d \in en |-> IF g[d] = Failure THEN 500 ELSE g[d]]]

\* lines 166-195: enhanced_scores out of the gathered results; an error when
\* a result is an exception or a dimension is missing
ProcessResults(g, en) ==
    IF \E d \in en : g[d] = Failure THEN [raised |-> TRUE, scores |-> NoMetrics]
    ELSE IF en # EnhancedSet THEN [raised |-> TRUE, scores |-> NoMetrics]
    ELSE [raised |-> FALSE, scores |-> g]

\* lines 94-99: the basic assessment is awaited
AssessComprehensive ==
    /\ apc = "idle"
    /\ apc' = "basic"
    /\ UNCHANGED << selMetrics, strategy, parallel, enabled, basicMetrics, gathered,
                    enhancedScores, advanced, failed >>
    /\ UNCHANGED << wvars, evars, xvars >>

\* line 99 returned basic_metrics; lines 102-105 choose the mode
BasicAssessed ==
    /\ apc = "basic"
    /\ \E story \in Stories : basicMetrics' = AssessQuality(story)
    /\ apc' = IF parallel THEN "gather" ELSE "sequential"
    /\ UNCHANGED << selMetrics, strategy, parallel, enabled, gathered,
                    enhancedScores, advanced, failed >>
    /\ UNCHANGED << wvars, evars, xvars >>

\* quality_assessor.py 94-152: the assessment of a basic dimension raised
BasicFails ==
    /\ apc = "basic"
    /\ \E d \in BasicSet : failed' = {d}
    /\ apc' = "raised"
    /\ UNCHANGED << selMetrics, strategy, parallel, enabled, basicMetrics, gathered,
                    enhancedScores, advanced >>
    /\ UNCHANGED << wvars, evars, xvars >>

\* lines 146-164: the enabled assessments run to their end, exceptions being
\* returned as results
Gather ==
    /\ apc = "gather"
    /\ \E rs \in [enabled -> Replies] :
         /\ gathered' = [d \in enabled |-> AssessDimension(rs[d])]
         /\ failed' = { d \in enabled : AssessDimension(rs[d]) = Failure }
    /\ apc' = "process"
    /\ UNCHANGED << selMetrics, strategy, parallel, enabled, basicMetrics,
                    enhancedScores, advanced >>
    /\ UNCHANGED << wvars, evars, xvars >>

\* lines 166-195
ProcessGathered ==
    /\ apc = "process"
    /\ LET res == ProcessResults(gathered, enabled)
       IN IF res.raised
          THEN apc' = "raised" /\ UNCHANGED enhancedScores
          ELSE apc' = "combine" /\ enhancedScores' = res.scores
    /\ UNCHANGED << selMetrics, strategy, parallel, enabled, basicMetrics, gathered,
                    advanced, failed >>
    /\ UNCHANGED << wvars, evars, xvars >>

\* lines 203-212: the next dimension is assessed, whatever the enable flags
AssessNext ==
    /\ apc = "sequential"
    /\ LET k == Cardinality(DOMAIN enhancedScores) + 1
           d == EnhancedDims[k]
       IN \E reply \in Replies :
            LET score == AssessDimension(reply)
            IN IF score = Failure
               THEN /\ failed' = {d}
                    /\ apc' = "raised"
                    /\ UNCHANGED enhancedScores
               ELSE /\ enhancedScores' =
                         [e \in DOMAIN enhancedScores \cup {d} |->
                             IF e = d THEN score ELSE enhancedScores[e]]
                    /\ apc' = IF k = Len(EnhancedDims) THEN "combine" ELSE "sequential"
                    /\ UNCHANGED failed
    /\ UNCHANGED << selMetrics, strategy, parallel, enabled, basicMetrics, gathered,
                    advanced >>
    /\ UNCHANGED << wvars, evars, xvars >>

\* lines 110-137: AdvancedQualityMetrics(...) validates every field against
\* ge=0.0, le=10.0; the overall score is then recalculated
Combine ==
    /\ apc = "combine"
    /\ LET m == [d \in DimSet |-> IF d \in BasicSet THEN basicMetrics[d]
                                  ELSE enhancedScores[d]]
       IN IF \A d \in DimSet : InRange(m[d])
          THEN /\ advanced' = [d \in DimSet \cup {"overall"} |->
                                 IF d = "overall"
                                 THEN CalculateComprehensiveOverallScore(m)
                                 ELSE m[d]]
               /\ apc' = "returned"
          ELSE /\ apc' = "raised"
               /\ UNCHANGED advanced
    /\ UNCHANGED << selMetrics, strategy, parallel, enabled, basicMetrics, gathered,
                    enhancedScores, failed >>
    /\ UNCHANGED << wvars, evars, xvars >>

AssessmentNext ==
    \/ AssessComprehensive
    \/ BasicAssessed
    \/ BasicFails
    \/ Gather
    \/ ProcessGathered
    \/ AssessNext
    \/ Combine

AssessInit ==
    /\ steps = << >>
    /\ WInitIdle
    /\ EInitIdle
    /\ selMetrics = [d \in DimSet |-> MinScore]
    /\ strategy = "none"
    /\ apc = "idle"
    /\ parallel \in BOOLEAN
    /\ enabled \in EnabledSets
    /\ basicMetrics = NoMetrics
    /\ gathered = NoMetrics
    /\ enhancedScores = NoMetrics
    /\ advanced = NoMetrics
    /\ failed = {}
    /\ XInitIdle

AssessSpec == AssessInit /\ [][AssessmentNext]_vars

\* ------------------------------------- one dimension assessment
\* the numerals an agent may write in its answer: -3.0, 0.0, 6.6, 10.0, 11.0
Numerals == {-300, MinScore, 660, MaxScore, 1100}
Answers == UNION { [1..n -> Numerals] : n \in 0..MaxNumbers }

Abs(x) == IF x < 0 THEN -x ELSE x

\* re.findall(r'\b\d+\.?\d*\b', text): the sign of a numeral is not part of
\* the match
FindAll(text) == [i \in 1..Len(text) |-> Abs(text[i])]

\* _assess_dialogue_quality(story) on an agent answering text (lines 230-239)
AssessAnswer ==
    /\ assessed = NotCalled
    /\ assessed' = AssessDimension(Reply(FALSE, FindAll(answer)))
    /\ UNCHANGED << answer, requirements, performance, strategyScores,
                    recommendation, compensatedSum >>
    /\ UNCHANGED << wvars, evars, qvars >>

ScoreInit ==
    /\ steps = << >>
    /\ WInitIdle
    /\ EInitIdle
    /\ QInitIdle
    /\ answer \in Answers
    /\ assessed = NotCalled
    /\ SInitIdle

ScoreSpec == ScoreInit /\ [][AssessAnswer]_vars

\* ------------------------------------- StrategySelector.select_strategy
\* Complexity factors are counted in tenths, complexity_score in fortieths
\* (the mean of four factors), scores, bonuses and confidences in 1/4000,
\* quality scores of performance records in tenths.
Genres == {"literary", "mystery", "science_fiction", "fantasy", "romance"}
WordCounts == {400, 1000, 1500, 1800, 4000, 6000}
ThemeWords == {0, 1, 3, 4}      \* words of requirements.theme (0: no theme)
SettingWords == {0, 2, 5, 6}    \* words of requirements.setting (0: no setting)

RequirementSet ==
    [genre : Genres, target_word_count : WordCounts,
     theme : ThemeWords, setting : SettingWords]

\* what record_strategy_performance is called with: a romance of 400 words
\* that succeeded with quality 10.0, or that failed. Of the record of lines
\* 206-216 the fields the selector reads are kept; quality in tenths.
PerformanceRecords ==
    { [genre |-> "romance", word_count |-> 400, success |-> TRUE, quality_score |-> 100],
      [genre |-> "romance", word_count |-> 400, success |-> FALSE, quality_score |-> 0] }

\* the records of one strategy that are kept (line 221)
HistoryLimit == 100

SimpleStoryMaxWords == 1000    \* config default simple_story_max_words
ComplexStoryMinWords == 1500   \* config default complex_story_min_words

\* min(max(x, lo), hi)
Clamp(x, lo, hi) == IF x < lo THEN lo ELSE IF x > hi THEN hi ELSE x

\* _analyze_word_count_complexity (lines 409-422)
AnalyzeWordCountComplexity(word_count) ==
    IF word_count <= 500 THEN 2
    ELSE IF word_count <= 1000 THEN 4
    ELSE IF word_count <= 1500 THEN 6
    ELSE IF word_count <= 3000 THEN 8
    ELSE IF word_count <= 5000 THEN 9
    ELSE 10

\* self.genre_complexity (lines 42-48)
GenreComplexity ==
    [g \in Genres |->
        CASE g = "literary" -> 8
          [] g = "mystery" -> 7
          [] g = "science_fiction" -> 9
          [] g = "fantasy" -> 9
          [] g = "romance" -> 6]

\* _analyze_theme_complexity (lines 424-437)
AnalyzeThemeComplexity(theme) ==
    IF theme = 0 THEN 1
    ELSE IF theme = 1 THEN 3
    ELSE IF theme <= 3 THEN 5
    ELSE 7

\* _analyze_setting_complexity (lines 439-452)
AnalyzeSettingComplexity(setting) ==
    IF setting = 0 THEN 1
    ELSE IF setting <= 2 THEN 3
    ELSE IF setting <= 5 THEN 5
    ELSE 7

\* complexity_factors of line 137, in tenths
ComplexityFactors(req) ==
    << AnalyzeWordCountComplexity(req.target_word_count), GenreComplexity[req.genre],
       AnalyzeThemeComplexity(req.theme), AnalyzeSettingComplexity(req.setting) >>

\* analyze_requirements: complexity_score = sum(factors) / len(factors)
\* (lines 124-139), in fortieths
ComplexityScore(req) ==
    ComplexityFactors(req)[1] + ComplexityFactors(req)[2]
        + ComplexityFactors(req)[3] + ComplexityFactors(req)[4]

\* the factor lists that add up to 1.6 and whose floats sum() adds to 1.6
\* from left to right but to 1.5999999999999999 with compensated summation:
\* complexity_score is then 0.39999999999999997, below the float 0.4
SumRoundsBelow == { << 2, 6, 1, 7 >>, << 2, 6, 7, 1 >>, << 6, 6, 1, 3 >>, << 6, 6, 3, 1 >> }

\* 0.4 <= analysis.complexity_score <= 0.7 (line 364), on the floats
MixedComplexity(req, compensated) ==
    /\ 16 <= ComplexityScore(req)
    /\ ComplexityScore(req) <= 28
    /\ ~(compensated /\ ComplexityFactors(req) \in SumRoundsBelow)

RECURSIVE SuccessCount(_)
SuccessCount(records) ==
    IF records = << >> THEN 0
    ELSE (IF Head(records).success THEN 1 ELSE 0) + SuccessCount(Tail(records))

RECURSIVE SuccessQuality(_)
SuccessQuality(records) ==
    IF records = << >> THEN 0
    ELSE (IF Head(records).success THEN Head(records).quality_score ELSE 0)
            + SuccessQuality(Tail(records))

\* _get_historical_performance_bonus (lines 382-407), learning enabled.
\* Scores and bonuses are counted in 1/12000: with up to four similar records
\* of quality 10.0 or 0.0 the averages of lines 402-403 are whole numbers of
\* these units.
HistoricalPerformanceBonus(perf, s, req) ==
    LET Similar(r) ==
            /\ r.genre = req.genre
            /\ 10 * Abs(r.word_count - req.target_word_count) < 3 * req.target_word_count
        similar == SelectSeq(perf[s], Similar)
        successes == SuccessCount(similar)
        avg_success == (12000 * successes) \div Len(similar)
        avg_quality ==
            SuccessQuality(similar) \div (IF successes > 1 THEN successes ELSE 1)
        performance_bonus == (avg_success - 9600) \div 5 + (avg_quality - 70) * 60
    IN IF similar = << >> THEN 0 ELSE Clamp(performance_bonus, -1200, 2400)

\* the bounds of min(max(score, lo), hi) in _score_*_strategy
ConfidenceRange ==
    [s \in Range(GenerationStrategy) |->
        CASE s = "direct" -> << 3600, 10800 >>
          [] s = "outline" -> << 4800, 11400 >>
          [] s = "iterative" -> << 3600, 11400 >>
          [] s = "adaptive" -> << 6000, 10200 >>]

Scored(s, total) ==
    [score |-> total,
     confidence |-> Clamp(total, ConfidenceRange[s][1], ConfidenceRange[s][2])]

\* _score_direct_strategy (lines 278-300)
ScoreDirectStrategy(req, perf) ==
    LET complexity_penalty == ComplexityScore(req) * 90
        word_count_bonus ==
            IF req.target_word_count <= SimpleStoryMaxWords THEN 2400 ELSE 0
    IN Scored("direct", 8400 - complexity_penalty + word_count_bonus
                            + HistoricalPerformanceBonus(perf, "direct", req))

\* _score_outline_strategy (lines 302-324)
ScoreOutlineStrategy(req, perf) ==
    LET complexity_bonus ==
            IF ComplexityScore(req) * 120 < 3600 THEN ComplexityScore(req) * 120 ELSE 3600
        structure_bonus ==
            IF req.genre \in {"mystery", "literary"} THEN 2400 ELSE 1200
    IN Scored("outline", 9600 + complexity_bonus + structure_bonus
                            + HistoricalPerformanceBonus(perf, "outline", req))

\* _score_iterative_strategy (lines 326-355)
ScoreIterativeStrategy(req, perf) ==
    LET complexity_bonus == ComplexityScore(req) * 210
        quality_bonus ==
            IF req.target_word_count >= ComplexStoryMinWords THEN 6000 ELSE 1200
        length_bonus == IF req.target_word_count >= 1800 THEN 3600 ELSE 0
        time_penalty == 600
    IN Scored("iterative", 8400 + complexity_bonus + quality_bonus + length_bonus
                              - time_penalty
                              + HistoricalPerformanceBonus(perf, "iterative", req))

\* _score_adaptive_strategy (lines 357-380)
ScoreAdaptiveStrategy(req, perf, compensated) ==
    LET uncertainty_bonus == IF MixedComplexity(req, compensated) THEN 1200 ELSE 0
    IN Scored("adaptive", 9000 + uncertainty_bonus
                             + HistoricalPerformanceBonus(perf, "adaptive", req))

\* _score_strategies (lines 255-276): the dict is filled in the order of
\* GenerationStrategy
ScoreStrategies(req, perf, compensated) ==
    [s \in Range(GenerationStrategy) |->
        CASE s = "direct" -> ScoreDirectStrategy(req, perf)
          [] s = "outline" -> ScoreOutlineStrategy(req, perf)
          [] s = "iterative" -> ScoreIterativeStrategy(req, perf)
          [] s = "adaptive" -> ScoreAdaptiveStrategy(req, perf, compensated)]

\* max(strategy_scores.items(), key=score): the first item, in insertion
\* order, whose score no other item exceeds (line 72)
BestStrategy(scores) ==
    GenerationStrategy[
        CHOOSE i \in 1..Len(GenerationStrategy) :
          /\ \A j \in 1..Len(GenerationStrategy) :
                scores[GenerationStrategy[j]].score <= scores[GenerationStrategy[i]].score
          /\ \A j \in 1..(i - 1) :
                scores[GenerationStrategy[j]].score < scores[GenerationStrategy[i]].score]

\* one step of a stable descending sort: x goes behind every item whose
\* score is not lower than its own
RECURSIVE InsertByScore(_, _, _)
InsertByScore(sorted, x, scores) ==
    IF sorted = << >> THEN << x >>
    ELSE IF scores[Head(sorted)].score >= scores[x].score
         THEN << Head(sorted) >> \o InsertByScore(Tail(sorted), x, scores)
         ELSE << x >> \o sorted

\* sorted(strategy_scores.items(), key=score, reverse=True) (lines 85-89):
\* items of equal score keep their insertion order
RECURSIVE SortByScore(_, _, _)
SortByScore(sorted, rest, scores) ==
    IF rest = << >> THEN sorted
    ELSE SortByScore(InsertByScore(sorted, Head(rest), scores), Tail(rest), scores)

SortedStrategiesInsertionOrder(scores) == GenerationStrategy

SortedStrategies(scores) == SortByScore(<< >>, GenerationStrategy, scores)

\* select_strategy (lines 71-100): the recommendation and its alternatives
StrategyRecommendation(scores) ==
    LET best == BestStrategy(scores)
        sorted_strategies == SubSeq(SortedStrategies(scores), 2, 3)
    IN [recommended_strategy |-> best,
        confidence |-> scores[best].confidence,
        alternatives |->
            [i \in 1..Len(sorted_strategies) |->
                [strategy |-> sorted_strategies[i],
                 confidence |-> scores[sorted_strategies[i]].confidence]]]

\* a call select_strategy(requirements) (lines 52-100). For validated
\* StoryRequirements and the records record_strategy_performance writes no
\* statement of the try block raises, and the fallback of lines 102-111 is
\* not reached.
SelectGenerationStrategy ==
    /\ strategyScores' = ScoreStrategies(requirements, performance, compensatedSum)
    /\ recommendation' = StrategyRecommendation(strategyScores')
    /\ UNCHANGED << answer, assessed, requirements, performance, compensatedSum >>
    /\ UNCHANGED << wvars, evars, qvars >>

\* record_strategy_performance (lines 182-227), learning enabled: the record
\* is appended to the strategy's list, of which the last 100 are kept
RecordStrategyPerformance ==
    /\ Len(performance["direct"]) + Len(performance["outline"])
          + Len(performance["iterative"]) + Len(performance["adaptive"]) < MaxRecords
    /\ \E s \in Range(GenerationStrategy), record \in PerformanceRecords :
         LET appended == Append(performance[s], record)
         IN performance' =
              [performance EXCEPT ![s] =
                  IF Len(appended) > HistoryLimit
                  THEN SubSeq(appended, Len(appended) - HistoryLimit + 1, Len(appended))
                  ELSE appended]
    /\ UNCHANGED << answer, assessed, requirements, strategyScores, recommendation,
                    compensatedSum >>
    /\ UNCHANGED << wvars, evars, qvars >>

StrategyNext ==
    \/ SelectGenerationStrategy
    \/ RecordStrategyPerformance

\* a StrategySelector after __init__, the requirements of the generation at
\* hand, one of the two interpreters
StrategyInit ==
    /\ steps = << >>
    /\ WInitIdle
    /\ EInitIdle
    /\ QInitIdle
    /\ answer = << >>
    /\ assessed = NotCalled
    /\ requirements \in RequirementSet
    /\ performance = NoPerformance
    /\ strategyScores = NoScores
    /\ recommendation = NoRecommendation
    /\ compensatedSum \in BOOLEAN

StrategySpec == StrategyInit /\ [][StrategyNext]_vars

Init ==
    /\ steps \in StepLists
    /\ WInitIdle
    /\ EInitIdle
    /\ QInitIdle
    /\ XInitIdle

Next ==
    \/ \E r \in {MainRun} : WorkflowNext(r)
    \/ RegisterStep
    \/ CleanupCompletedWorkflows

Spec == Init /\ [][Next]_vars

\* ---- two calls of execute_workflow on one engine, interleaved at their awaits
\* the engine has one step registered, with retry_count -1 or 1; the others,
\* required and without retries, are registered before or during the runs
ConcStepLists ==
    { ss \in StepLists : Len(ss) = 1 /\ ss[1].retry_count \in {-1, 1} }

ConcRegisterStep == RegisterStepWith(MaxSteps, {0}, {TRUE})

\* the handlers are those of the repository
ConcWorkflowNext(r) == WorkflowNextWith(r, RepositoryStores)

ConcInit ==
    /\ steps \in ConcStepLists
    /\ WInitIdle
    /\ EInitIdle
    /\ QInitIdle
    /\ XInitIdle

ConcNext ==
    \/ \E r \in Runs : ConcWorkflowNext(r)
    \/ ConcRegisterStep
    \/ CleanupCompletedWorkflows

ConcSpec == ConcInit /\ [][ConcNext]_vars

TypeOK ==
    /\ \A r \in Runs : pc[r] \in {"idle", "loop", "retry", "inflight", "sleeping",
                                  "finalize", "build", "returned", "raised"}
    /\ \A r \in Runs : inflight[r] \in 0..1

\* ================================================================ claims
Started(r) == pc[r] # "idle"
Executing(r) == pc[r] \in {"retry", "inflight", "sleeping"}
Completed(r) == Range(wstate[r].steps_completed)
Remaining(r) == Range(wstate[r].steps_remaining)
Failed(r) == wstate[r].error_count > 0
\* the run aborted because a step failed on the last of its attempts
Exhausted(r) == Failed(r) /\ wstate[r].last_error \in {"Timeout", "HandlerError"}
\* the names of the steps that were registered when the run started
NamesAtStart(r) == SubSeq(NameSeq(steps), 1, totalSteps[r])
\* position of the step the run is at (the failing step of an aborted run)
CurrentPos(r) ==
    IF \E k \in 1..N : steps[k].name = wstate[r].current_step
    THEN CHOOSE k \in 1..N : steps[k].name = wstate[r].current_step
    ELSE 0
ProgressLeq(p, q) == p[1] * q[2] <= q[1] * p[2]
ProgressEq(p, q) == p[1] * q[2] = q[1] * p[2]

\* C1: handlers are invoked in registration order: when the handler of the
\* step at position k has been invoked, the steps before it are exactly the
\* first k-1 completed steps, and at its first invocation the handler found
\* results[name] of each of them in the run's context.
C1_StepsInRegistrationOrder ==
    \A r \in Runs : \A k \in 1..N :
        calls[r][k] > 0 =>
            /\ Len(wstate[r].steps_completed) >= k - 1
            /\ SubSeq(wstate[r].steps_completed, 1, k - 1) = SubSeq(NameSeq(steps), 1, k - 1)
            /\ seen[r][k] = { steps[j].name : j \in 1..(k - 1) }

C1_Witness ==
    \E r \in Runs : N = MaxSteps /\ calls[r][N] > 0 /\ calls[r][1] > 1

\* C2: when a required step has failed on all of its retry_count+1 attempts,
\* execute_workflow has raised an error naming that step, no handler of a
\* later step was invoked and no later step name is in steps_completed.
C2_RequiredFailureAborts ==
    \A r \in Runs :
        (Exhausted(r) /\ CurrentPos(r) > 0 /\ steps[CurrentPos(r)].required) =>
            LET f == CurrentPos(r) IN
            /\ pc[r] = "raised"
            /\ raisedErr[r].type = "WorkflowError"
            /\ raisedErr[r].step = steps[f].name
            /\ calls[r][f] = steps[f].retry_count + 1
            /\ \A j \in (f + 1)..N :
                 calls[r][j] = 0 /\ steps[j].name \notin Completed(r)

C2_Witness ==
    \E r \in Runs :
        /\ Exhausted(r) /\ CurrentPos(r) > 0 /\ steps[CurrentPos(r)].required
        /\ CurrentPos(r) < N
        /\ steps[CurrentPos(r)].retry_count = 2
        /\ calls[r][CurrentPos(r)] = 3
        /\ pc[r] = "raised"

\* C3: the attempts of a step are made one at a time and never more than
\* retry_count+1 of them; a step that succeeded on attempt k+1 after k
\* failures holds the result of that attempt (k retries), and no attempt of a
\* completed step is in flight.
C3_SequentialBoundedAttempts ==
    \A r \in Runs :
        /\ inflight[r] <= 1
        /\ pc[r] = "inflight" => Step(r).name \notin Completed(r)
        /\ \A k \in 1..N :
             /\ calls[r][k] <= Max(steps[k].retry_count + 1, 0)
             /\ (steps[k].name \in Completed(r) /\ steps[k].retry_count >= 0) =>
                    /\ calls[r][k] >= 1
                    /\ results[r][steps[k].name] = calls[r][k] - 1

C3_Witness ==
    \E r \in Runs : \E k \in 1..N :
        /\ steps[k].retry_count = 2
        /\ steps[k].name \in Completed(r)
        /\ calls[r][k] = 3
        /\ results[r][steps[k].name] = 2

\* C4: every attempt after the first starts after a wait of
\* min(2^attempt, 10), attempt being the index of the attempt that just
\* failed, whether that attempt timed out or raised.
C4_BackoffBeforeEveryRetry ==
    \A r \in Runs :
        (pc[r] = "inflight" /\ attempt[r] >= 1) => waited[r] = Backoff(attempt[r] - 1)

\* C5: once the run's time budget has elapsed no step attempt is started and
\* the run does not return a result.
C5_TimeBudgetEnforced ==
    [][\A r \in Runs :
          overBudget[r] =>
              /\ calls'[r] = calls[r]
              /\ (pc[r] # "returned" => pc'[r] # "returned")]_vars

\* C6: a step registered with required = false that failed on all of its
\* attempts aborts the run as a required one does: execute_workflow raised a
\* WorkflowError, no later handler was invoked, no result is returned.
C6_OptionalFailureAborts ==
    \A r \in Runs :
        (Exhausted(r) /\ CurrentPos(r) > 0 /\ ~steps[CurrentPos(r)].required) =>
            LET f == CurrentPos(r) IN
            /\ pc[r] = "raised"
            /\ raisedErr[r].type = "WorkflowError"
            /\ calls[r][f] = steps[f].retry_count + 1
            /\ \A j \in (f + 1)..N :
                 calls[r][j] = 0 /\ steps[j].name \notin Completed(r)

C6_Witness ==
    \E r \in Runs :
        /\ Exhausted(r) /\ CurrentPos(r) > 0 /\ ~steps[CurrentPos(r)].required
        /\ CurrentPos(r) < N
        /\ pc[r] = "raised"

\* C7: in a run started with N >= 1 registered steps the progress is i/N
\* while the step at index i (0-based) runs, retries included, 1 once the run
\* is finalized, and it never decreases.
C7_MonotonicProgress ==
    /\ [](\A r \in Runs :
            totalSteps[r] >= 1 =>
              /\ pc[r] = "loop" /\ idx[r] = 0 => ProgressEq(wstate[r].progress, << 0, 1 >>)
              /\ Executing(r) =>
                    ProgressEq(wstate[r].progress, << idx[r], totalSteps[r] >>)
              /\ pc[r] \in {"build", "returned"} =>
                    ProgressEq(wstate[r].progress, << 1, 1 >>))
    /\ [][\A r \in Runs : ProgressLeq(wstate[r].progress, wstate'[r].progress)]_vars

C7_Witness ==
    \E r \in Runs :
        /\ totalSteps[r] = MaxSteps /\ pc[r] = "returned"
        /\ \E k \in 1..N : calls[r][k] > 1

\* C8 as stated: every registered step name is in exactly one of
\* steps_completed, steps_remaining, currently-executing.
C8_ThreeWayPartition ==
    \A r \in Runs :
        Started(r) =>
            \A k \in 1..totalSteps[r] :
                LET n == steps[k].name
                    c == IF n \in Completed(r) THEN 1 ELSE 0
                    m == IF n \in Remaining(r) THEN 1 ELSE 0
                    e == IF Executing(r) /\ wstate[r].current_step = n THEN 1 ELSE 0
                IN c + m + e = 1

\* C8 amended: every step name that was registered when the run started is
\* in exactly one of steps_completed and steps_remaining, the two lists
\* together being the registration list in order; the step being executed,
\* and the step that failed on its last attempt, is listed in
\* steps_remaining.
C8_CompletedRemainingPartition ==
    \A r \in Runs :
        Started(r) =>
            LET atStart(n) == n \in Range(NamesAtStart(r)) IN
            /\ \A k \in 1..totalSteps[r] :
                 (steps[k].name \in Completed(r)) # (steps[k].name \in Remaining(r))
            /\ SelectSeq(wstate[r].steps_completed, atStart)
                  \o wstate[r].steps_remaining = NamesAtStart(r)
            /\ ((Executing(r) \/ Exhausted(r)) /\ atStart(wstate[r].current_step))
                  => wstate[r].current_step \in Remaining(r)

C8_Witness ==
    \E r \in Runs :
        /\ totalSteps[r] >= 2 /\ pc[r] = "inflight" /\ idx[r] = 1
        /\ wstate[r].steps_completed = << steps[1].name >>
        /\ wstate[r].current_step = steps[2].name
        /\ steps[2].name \in Remaining(r)

\* C9: execute_workflow returns a result only when every registered step is
\* in steps_completed (in registration order), steps_remaining is empty, the
\* stage is finalization and progress is 1; a run that ended otherwise raised
\* an error and returned nothing.
C9_ResultOnlyOnFullSuccess ==
    \A r \in Runs :
        /\ pc[r] = "returned" =>
             /\ wstate[r].steps_completed = NamesAtStart(r)
             /\ wstate[r].steps_remaining = << >>
             /\ wstate[r].stage = "finalization"
             /\ ProgressEq(wstate[r].progress, << 1, 1 >>)
             /\ wstate[r].error_count = 0
             /\ raisedErr[r] = NoError
        /\ pc[r] = "raised" => raisedErr[r].type = "WorkflowError"
        /\ Failed(r) => pc[r] = "raised"

C9_Witness ==
    \E r \in Runs :
        /\ pc[r] = "returned" /\ totalSteps[r] >= 2
        /\ wstate[r].steps_completed = NameSeq(steps)

\* C10: the number of passes enhance_story has executed is at most max_passes
\* (at most config.max_enhancement_passes when max_passes is omitted), for
\* every max_passes >= 0.
C10_PassBudget ==
    Len(passes) <= (IF maxPassesArg = NoneArg THEN cfgMaxPasses ELSE maxPassesArg)

\* ---- enhance_story
Delta(k) == passes[k].quality_improvement
\* the branch of line 99 was taken: initial_quality.overall_score >= target_quality
ZeroPassPath == passNum = 0 /\ finalQ # NoneArg
\* enhance_story has ended, by a return or by an error
CallEnded == epc \in {"returned", "raised"}
ServiceFailed == eErr \in {"GenerationError", "AssessmentError"}
\* the Generation Service, or the assessment of the enhanced content, failed
\* during pass number passNum
FailedDuringPass ==
    /\ epc = "raised"
    /\ passNum >= 1
    /\ \/ eErr = "GenerationError"
       \/ eErr = "AssessmentError" /\ enhanced = passNum /\ Len(passes) < passNum
\* the output of the last recorded pass that did not signal convergence
\* (0, the initial content, when there is none)
LastAdopted == Len(passes) - (IF conv.convergence_detected THEN 1 ELSE 0)

\* C11: when the initial assessment already meets the target, enhance_story
\* executes no pass, never calls the Generation Service, and returns the
\* initial content and title with an empty pass history (it does not raise).
C11_ZeroPassReturn ==
    ZeroPassPath =>
        /\ passes = << >>
        /\ genCalls = 0
        /\ current = 0
        /\ epc \in {"build", "returned"}

\* C12: with deltas 1.0 and 0.3 recorded for the first two passes (threshold
\* 0.1, target not reached, max_passes >= 3) the loop is not stopped by the
\* second pass; it stops after a third pass of delta 0.05.
C12_StopsAfterThirdPass ==
    (maxPasses >= 3 /\ Len(passes) >= 2 /\ Delta(1) = 20 /\ Delta(2) = 6) =>
        /\ ~conv.convergence_detected \/ Len(passes) = 3
        /\ (Len(passes) = 3 /\ Delta(3) = 1) =>
               (conv.convergence_detected /\ conv.convergence_pass = 3)

\* C12 (amended): with deltas 1.0 and 0.3 recorded for the first two passes
\* the loop stops after the second pass, diminishing returns being detected
\* (0.3 < 0.5 * 1.0); the Generation Service is called twice and no third
\* pass is recorded.
C12_StopsAfterSecondPass ==
    (Len(passes) >= 2 /\ Delta(1) = 20 /\ Delta(2) = 6) =>
        /\ Len(passes) = 2
        /\ conv.diminishing_returns_detected
        /\ conv.convergence_detected
        /\ conv.convergence_pass = 2
        /\ genCalls = 2
        /\ epc \in {"assess_final", "build", "raised"}

C12_Witness ==
    /\ maxPasses >= 3 /\ target = CfgTargetQuality
    /\ Len(passes) = 2 /\ Delta(1) = 20 /\ Delta(2) = 6
    /\ conv.convergence_pass = 2
    /\ epc = "build"

\* C13: with deltas 1.0 then 0.4 (target not reached, max_passes >= 2)
\* diminishing_returns_detected is true after the second pass and the loop
\* does not execute a third pass.
C13_DiminishingReturns ==
    (Len(passes) >= 2 /\ Delta(1) = 20 /\ Delta(2) = 8) =>
        /\ conv.diminishing_returns_detected
        /\ Len(passes) = 2
        /\ passNum = 2
        /\ epc \notin {"assess_current", "generate", "assess_enhanced"}

C13_Witness ==
    /\ maxPasses >= 3
    /\ Len(passes) = 2 /\ Delta(1) = 20 /\ Delta(2) = 8
    /\ conv.diminishing_returns_detected
    /\ epc = "assess_final"

\* the two early-stop rules of the ConvergenceTracker, on the recorded
\* deltas (floats)
PlateauRule ==
    /\ Len(passes) >= 2
    /\ BelowThreshold(passes[Len(passes)])
    /\ BelowThreshold(passes[Len(passes) - 1])
DiminishingRule ==
    /\ Len(passes) >= 2
    /\ LessThanHalf(passes[Len(passes)], passes[Len(passes) - 1])
LatestBelowThreshold ==
    /\ Len(passes) >= 2
    /\ BelowThreshold(passes[Len(passes)])

\* C14: the loop stops for convergence if and only if the two most recent
\* deltas are both below the threshold or the latest delta is less than half
\* the previous one; with fewer than two recorded passes it never does.
C14_ConvergenceIff ==
    Len(passes) >= 1 =>
        (conv.convergence_detected <=> (PlateauRule \/ DiminishingRule))

\* C14 (amended): the loop stops for convergence if and only if at least two
\* passes are recorded and the latest delta is below the threshold (whatever
\* the previous delta) or less than half the previous delta; with fewer than
\* two recorded passes it never does.
C14_ConvergenceLatestDelta ==
    Len(passes) >= 1 =>
        /\ conv.convergence_detected <=> (LatestBelowThreshold \/ DiminishingRule)
        /\ conv.convergence_detected => conv.convergence_pass = Len(passes)
        /\ Len(passes) < 2 => ~conv.convergence_detected

C14_Witness ==
    /\ Len(passes) = 2 /\ Delta(1) = 2 /\ Delta(2) = 1
    /\ ~PlateauRule /\ ~DiminishingRule
    /\ conv.convergence_detected

\* C15: when the Generation Service or the Scoring Service fails during pass
\* n, enhance_story stops the loop without retrying and returns to the caller
\* the content that was current at the start of pass n.
C15_FailureHandsBackBest ==
    FailedDuringPass =>
        /\ genCalls <= passNum
        /\ Len(passes) = passNum - 1
        /\ epc = "returned"

\* C16: when enhance_story ends without a service failure it returns the
\* output of the last pass that did not signal convergence (the initial
\* content when there is none), the output of a converging pass being
\* recorded but not adopted, and the final quality is an assessment of the
\* returned content.
C16_ReturnsLastAdopted ==
    (CallEnded /\ ~ServiceFailed) =>
        /\ epc = "returned"
        /\ current = LastAdopted
        /\ finalQ # NoneArg
        /\ scoreCalls[current] >= 1

\* ---- _select_enhancement_strategy
Selected == strategy # "none"
Weak(d) == selMetrics[d] < WeakThreshold
\* the dimensions that have a focus strategy
Focusable == DOMAIN StrategyPriorities
\* position of a dimension in the fixed order of Dimensions
Position(d) == CHOOSE i \in 1..Len(Dimensions) : Dimensions[i] = d

\* C17: _select_enhancement_strategy returns Comprehensive if and only if no
\* dimension scores strictly below 7.0; when some dimension is weak it
\* returns the focus strategy of a weak dimension.
C17_ComprehensiveIffNoWeak ==
    Selected =>
        /\ strategy = "comprehensive" <=> ~(\E d \in DimSet : Weak(d))
        /\ (\E d \in DimSet : Weak(d)) =>
               \E d \in Focusable : Weak(d) /\ strategy = StrategyPriorities[d]

\* C17 (amended): _select_enhancement_strategy returns Comprehensive if and
\* only if none of the nine dimensions that have a focus strategy scores
\* strictly below 7.0 (7.0 itself is not weak; theme_integration and
\* originality_score have no focus strategy and are ignored); otherwise it
\* returns the focus strategy of a weak dimension.
C17_ComprehensiveIffNoWeakFocusable ==
    Selected =>
        /\ strategy = "comprehensive" <=> ~(\E d \in Focusable : Weak(d))
        /\ (\E d \in Focusable : Weak(d)) =>
               \E d \in Focusable : Weak(d) /\ strategy = StrategyPriorities[d]

C17_Witness ==
    /\ strategy = "comprehensive"
    /\ Weak("theme_integration")
    /\ \A d \in Focusable : selMetrics[d] = WeakThreshold

\* C18: when a dimension with a focus strategy is weak, the strategy returned
\* is that of the weak dimension maximising (10 - score) times the weight
\* enhancement_strategy_weights configures for the dimension, the earliest
\* dimension in the order Structure, Coherence, Character, ... winning a tie.
\* The weight configured for emotional impact is the entry
\* emotional_impact_weight of enhancement_strategy_weights; for every other
\* dimension it is the entry the code reads.
C18_MaxConfiguredPriority ==
    (Selected /\ \E d \in Focusable : Weak(d)) =>
        LET ConfiguredWeight(d) ==
                IF d = "emotional_impact" THEN StrategyWeights.emotional_impact_weight
                ELSE WeightsGet(WeightKey[StrategyPriorities[d]])
            ConfiguredPriority(d) == (MaxScore - selMetrics[d]) * ConfiguredWeight(d)
        IN
        \E d \in Focusable :
            /\ Weak(d)
            /\ strategy = StrategyPriorities[d]
            /\ \A e \in Focusable :
                 Weak(e) =>
                    \/ ConfiguredPriority(e) < ConfiguredPriority(d)
                    \/ ConfiguredPriority(e) = ConfiguredPriority(d)
                       /\ Position(d) <= Position(e)

\* ---- assess_comprehensive
\* C19: every vector assess_comprehensive returns has each of its dimensions
\* and its overall score within [0, 10]; the weighted overall score of
\* in-range dimensions is itself within [0, 10].
C19_ScoresInRange ==
    apc = "returned" =>
        /\ DOMAIN advanced = DimSet \cup {"overall"}
        /\ \A d \in DOMAIN advanced : InRange(advanced[d])

C19_Witness ==
    /\ apc = "returned"
    /\ advanced["structure"] = 700
    /\ advanced["coherence"] = 900
    /\ \A d \in DimSet \ {"structure", "coherence"} : advanced[d] = MaxScore
    /\ advanced["overall"] = 954

\* C20: when the assessment of any single dimension has failed,
\* assess_comprehensive does not return a vector, partial or completed with
\* defaults, in parallel mode and in sequential mode: it raises.
C20_FailsAsAWhole ==
    failed # {} =>
        /\ apc \in {"process", "raised"}
        /\ advanced = NoMetrics

C20_Witness ==
    /\ apc = "raised"
    /\ parallel
    /\ enabled = EnhancedSet
    /\ Cardinality(failed) = 1
    /\ \E d \in DOMAIN gathered : gathered[d] = 660

\* ---- one dimension assessment
\* C21: a score outside [0, 10] in the agent's answer makes the assessment
\* raise; it is never clamped into range nor replaced by another value.
C21_OutOfRangeRaises ==
    (assessed # NotCalled /\ answer # << >> /\ ~InRange(Head(answer))) =>
        assessed = Failure

\* ---- concurrent runs
\* what a run owns: its position, its WorkflowState, its context and its
\* entry in the engine's table
RunView(r) ==
    << pc[r], idx[r], attempt[r], wstate[r], results[r], contentSet[r],
       titleSet[r], qualityMetrics[r], raisedErr[r], calls[r], inflight[r], waited[r], r \in workflows >>

\* C22: a step of one run (a handler completing, failing, timing out, a
\* retry, the end of the run) never changes the other run's WorkflowState
\* nor its context results, and never adds or removes the other run's entry
\* in the table of running workflows.
C22_RunsIsolated ==
    [][\A r1, r2 \in Runs :
          (r1 # r2 /\ WorkflowNext(r1)) =>
              /\ wstate'[r2] = wstate[r2]
              /\ results'[r2] = results[r2]
              /\ (r2 \in workflows') <=> (r2 \in workflows)]_vars

C22_Witness ==
    /\ pc[1] = "raised" /\ wstate[1].error_count = 1
    /\ pc[2] = "inflight" /\ 2 \in workflows /\ 1 \notin workflows
    /\ wstate[2].steps_completed = << steps[1].name >>
    /\ results[2][steps[1].name] # Absent
    /\ results[1][steps[1].name] = Absent


\* C23: select_strategy recommends a candidate whose score no other candidate
\* exceeds; its alternatives are exactly two other candidates, the next-highest
\* in descending order of score, none of them the recommended one; and the
\* confidence reported lies within the recommended candidate's clamp range.
C23_BestAndAlternatives ==
    recommendation # NoRecommendation =>
        LET scores == strategyScores
            best == recommendation.recommended_strategy
            alts == recommendation.alternatives
            others == Range(GenerationStrategy) \ {best}
        IN /\ \A s \in Range(GenerationStrategy) : scores[s].score <= scores[best].score
           /\ Len(alts) = 2
           /\ alts[1].strategy \in others
           /\ alts[2].strategy \in others \ {alts[1].strategy}
           /\ scores[alts[1].strategy].score >= scores[alts[2].strategy].score
           /\ \A s \in others \ {alts[1].strategy, alts[2].strategy} :
                 scores[s].score <= scores[alts[2].strategy].score
           /\ ConfidenceRange[best][1] <= recommendation.confidence
           /\ recommendation.confidence <= ConfidenceRange[best][2]

\* a call that recommended Direct thanks to its record, with Outline and
\* Adaptive as alternatives, the confidence clamped to the upper bound
C23_Witness ==
    /\ recommendation # NoRecommendation
    /\ recommendation.recommended_strategy = "direct"
    /\ recommendation.confidence = 10800
    /\ recommendation.alternatives[1].strategy = "outline"
    /\ recommendation.alternatives[2].strategy = "adaptive"
    /\ performance["direct"] # << >>


\* ---- enhance_story, scoring and convergence state
\* C24: within one enhance_story call the Quality Scoring Service is invoked
\* at most once for any given content (the initial content, or the output of
\* a pass).
C24_ScoredAtMostOnce ==
    \A c \in DOMAIN scoreCalls : scoreCalls[c] <= 1

\* C25: after every executed pass, improvement_velocity is the sequence of
\* the deltas of the passes executed so far, each once and in pass order.
C25_VelocityIsDeltaSequence ==
    conv.improvement_velocity = [k \in 1..Len(passes) |-> Delta(k)]

\* ---- enhance_story with scores given by content
\* the call has assessed the content it is about to hand back
FinalKnown == finalQ # NoneArg /\ DOMAIN quality # {}

\* C27: with a Scoring Service that gives the same content the same score,
\* the final overall quality is never lower than the initial one, no pass
\* output of lower score than the content it replaces being adopted.
C27_FinalNotBelowInitial ==
    FinalKnown =>
        /\ finalQ >= quality[0]
        /\ \A k \in 1..current : quality[k] >= quality[k - 1]

\* C28: with a Scoring Service that gives the same content the same score, if
\* an executed pass produced content of score >= the target, the content
\* enhance_story hands back has quality >= the target.
C28_TargetMeetingVersionKept ==
    (FinalKnown /\ \E k \in 1..Len(passes) : passes[k].quality_after >= target) =>
        finalQ >= target

\* C29: when the initial assessment and every Generation Service and Scoring
\* Service call of the call succeed, enhance_story returns a result and does
\* not raise, on the zero-pass path and after passes.
C29_ReturnsWhenServicesSucceed ==
    epc = "raised" => ServiceFailed


\* ---- execute_workflow, errors and completion
\* C26: every error execute_workflow raises because a step exhausted its
\* attempts carries the failing step's name and the last underlying error
\* (the timeout or the handler's exception, held in the exception chain),
\* whether the step is required or not.
C26_ErrorCarriesStepAndCause ==
    \A r \in Runs :
        Exhausted(r) =>
            /\ pc[r] = "raised"
            /\ raisedErr[r].type = "WorkflowError"
            /\ raisedErr[r].step = wstate[r].current_step
            /\ raisedErr[r].context \in {"Timeout", "HandlerError"}
            /\ raisedErr[r].context = wstate[r].last_error

C26_Witness ==
    \E r \in Runs :
        /\ Exhausted(r)
        /\ ~steps[idx[r] + 1].required
        /\ steps[idx[r] + 1].retry_count >= 1
        /\ raisedErr[r].wrapped = "StoryGenerationError"
        /\ raisedErr[r].cause = "none"
        /\ raisedErr[r].context = "Timeout"

\* C30: a step name is in steps_completed, and results[name] is set, only
\* after the handler of a step of that name was invoked in the run and
\* returned, whatever retry_count the step was registered with.
C30_CompletedOnlyAfterHandler ==
    \A r \in Runs : \A n \in AllNames :
        (n \in Completed(r) \/ results[r][n] # Absent) =>
            \E k \in 1..N :
                /\ steps[k].name = n
                /\ calls[r][k] >= 1
                /\ results[r][n] # NoneResult

====
